---- MODULE Spec2Model ----
(***************************************************************************)
(* Model of irlib/survey.py: the Survey class over a hierarchical store    *)
(* (line_<n>/location_<n>/datacapture_<n>/<dataset>), its retention map,   *)
(* GetLines, GetChannelsInLine, ExtractLine, WriteHDF5 and HDFpath2fid.    *)
(*                                                                         *)
(* Names of the store are modelled as [stem, suffix] for the text          *)
(* "<stem>_<suffix>", the suffix being a sequence of one-character         *)
(* strings, so that formatting an integer, parsing it back and comparing   *)
(* names as text are computed and not assumed.                             *)
(***************************************************************************)
EXTENDS Integers, Sequences, FiniteSets, TLC

VARIABLES store, f, retain, marks, pc, ret

vars == <<store, f, retain, marks, pc, ret>>

(***************************************************************************)
(* Bounds of the model.                                                    *)
(***************************************************************************)
\* line numbers of the store are 0..MaxLine
MaxLine == 2
\* a location of the layout stores holds at most MaxChannels channel groups
MaxChannels == 2
\* a dataset holds 1..MaxSamples samples
MaxSamples == 2
\* the line ExtractLine is exercised on holds at most MaxRecords datasets
MaxRecords == 3
\* integer bounds given to ExtractLine are in -MaxBound..MaxBound
MaxBound == 1
\* location numbers: SmallLoc and BigLoc, whose decimal texts sort the other
\* way round ("10" before "2")
SmallLoc == 2
BigLoc == 10
\* callers mark at most MaxMarks cells of the retention map
MaxMarks == 1

None == "None"

LineIds == 0..MaxLine
\* the channel (datacapture) numbers of the extraction stores
DcIds == {0, 1, 2}
LocIds == {SmallLoc, BigLoc}

(***************************************************************************)
(* Text: str(n), int(s), and the order of names as text.                   *)
(***************************************************************************)
DigitChars == <<"0", "1", "2", "3", "4", "5", "6", "7", "8", "9">>

\* the characters a suffix is made of, in character-code order
SuffixChars == DigitChars \o <<"x">>

RECURSIVE Str(_)
\* str(n) / "{0}".format(n) for n >= 0
Str(n) == IF n < 10 THEN <<DigitChars[n + 1]>>
          ELSE Append(Str(n \div 10), DigitChars[(n % 10) + 1])

CharRank(c) == CHOOSE i \in 1..Len(SuffixChars) : SuffixChars[i] = c

IsDigit(c) == \E i \in 1..Len(DigitChars) : DigitChars[i] = c

\* whether int(s) succeeds (otherwise it raises ValueError)
IsIntText(s) == Len(s) > 0 /\ \A i \in 1..Len(s) : IsDigit(s[i])

RECURSIVE Int_(_)
\* int(s) for a text of digits
Int_(s) == IF Len(s) = 0 THEN 0
           ELSE 10 * Int_(SubSeq(s, 1, Len(s) - 1)) + (CharRank(s[Len(s)]) - 1)

RECURSIVE TextLess(_, _)
\* s < t for two texts, character by character, a proper prefix first
TextLess(s, t) ==
    IF Len(t) = 0 THEN FALSE
    ELSE IF Len(s) = 0 THEN TRUE
    ELSE IF s[1] # t[1] THEN CharRank(s[1]) < CharRank(t[1])
    ELSE TextLess(Tail(s), Tail(t))

Stems == <<"datacapture", "echogram", "line", "location", "picked">>

StemRank(st) == CHOOSE i \in 1..Len(Stems) : Stems[i] = st

Name(st, n) == [stem |-> st, suffix |-> Str(n)]

\* order of two names "<stem>_<suffix>" as text (the stems used here are
\* not prefixes of one another)
NameLess(a, b) ==
    IF a.stem # b.stem THEN StemRank(a.stem) < StemRank(b.stem)
    ELSE TextLess(a.suffix, b.suffix)

RECURSIVE PathLess(_, _)
\* order in which a depth-first, name-ordered traversal meets two paths
PathLess(p, q) ==
    IF Len(q) = 0 THEN FALSE
    ELSE IF Len(p) = 0 THEN TRUE
    ELSE IF p[1] # q[1] THEN NameLess(p[1], q[1])
    ELSE PathLess(Tail(p), Tail(q))

(***************************************************************************)
(* The store.  A store is [lines, locs, leaves]: the line groups, the      *)
(* location groups <<line, loc>> and the datasets; a channel group exists  *)
(* where a dataset lies under it.                                          *)
(***************************************************************************)
\* the samples of a dataset, all non-zero so that padding is visible
Samples(loc, dc, n) == [i \in 1..n |-> (10 * loc) + (2 * dc) + i]

\* what may lie in a channel group: a raw echogram of n samples, or a
\* one-sample dataset with malformed metadata ("badxml"), with a name of
\* the annotated kind ("picked"), or with a suffix that is no integer
\* ("badname")
Kinds == {[n |-> n, defect |-> "none"] : n \in 1..MaxSamples}
         \cup {[n |-> 1, defect |-> d] : d \in {"badxml", "picked", "badname"}}

Leaf(lin, loc, dc, kind) ==
    [line |-> lin, loc |-> loc, dc |-> dc,
     name |-> IF kind.defect = "picked" THEN Name("picked", 0)
              ELSE IF kind.defect = "badname"
                   THEN [stem |-> "echogram", suffix |-> <<"x">>]
              ELSE Name("echogram", 0),
     data |-> Samples(loc, dc, kind.n),
     xml |-> kind.defect # "badxml"]

Plain == [n |-> 1, defect |-> "none"]

LeafPath(l) == <<Name("location", l.loc), Name("datacapture", l.dc), l.name>>

MkStore(lines, locs, leaves) ==
    [isfile |-> TRUE, lines |-> lines, locs |-> locs, leaves |-> leaves]

\* no file at the survey's path
NoStore == [isfile |-> FALSE, lines |-> {}, locs |-> {}, leaves |-> {}]

EmptyStore == MkStore({}, {}, {})

\* the line ExtractLine is exercised on
ExtLine == 1

Cells == LocIds \X DcIds

CellSets == {cs \in SUBSET Cells : Cardinality(cs) <= MaxRecords}

\* a store of one line with the datasets k[c], c in cs, of every kind
ExtractStore(cs, k) ==
    MkStore({ExtLine}, {<<ExtLine, c[1]>> : c \in cs},
            {Leaf(ExtLine, c[1], c[2], k[c]) : c \in cs})

\* a line of the layout stores: each location absent (0) or holding the
\* channel groups 0..n-1, each with one plain echogram
LineShapes == [LocIds -> 0..MaxChannels]

\* a store of the lines ls with line l of shape sh[l] (a line whose
\* locations are all absent is an empty line group)
LayoutStore(ls, sh) ==
    MkStore(ls,
            {x \in ls \X LocIds : sh[x[1]][x[2]] > 0},
            UNION {UNION {{Leaf(l, loc, dc, Plain) : dc \in 0..(sh[l][loc] - 1)}
                            : loc \in LocIds} : l \in ls})

(***************************************************************************)
(* Traversal of the store (h5py: iteration over a group, Group.visit).     *)
(***************************************************************************)
LineName(lin) == Name("line", lin)

\* list(f), f.keys(): the names at the top of the store, in name order
RECURSIVE SortNames(_)
SortNames(S) ==
    IF S = {} THEN <<>>
    ELSE LET m == CHOOSE x \in S : \A y \in S \ {x} : NameLess(x, y)
         IN <<m>> \o SortNames(S \ {m})

TopNames(st) == SortNames({LineName(l) : l \in st.lines})

\* the names of the locations of a line: f[line].keys()
LocNames(st, lin) == SortNames({Name("location", x[2]) : x \in {y \in st.locs : y[1] = lin}})

\* the channel groups under a location: the children of f[line][loc]
ChannelNames(st, lin, loc) ==
    {Name("datacapture", l.dc) : l \in {x \in st.leaves : x.line = lin /\ x.loc = loc}}

\* every path under line_<lin>, relative to it: groups and datasets
Nodes(st, lin) ==
    {<<Name("location", x[2])>> : x \in {y \in st.locs : y[1] = lin}}
    \cup {SubSeq(LeafPath(l), 1, 2) : l \in {x \in st.leaves : x.line = lin}}
    \cup {LeafPath(l) : l \in {x \in st.leaves : x.line = lin}}

RECURSIVE InsertPath(_, _)
InsertPath(sorted, p) ==
    IF sorted = <<>> THEN <<p>>
    ELSE IF PathLess(sorted[Len(sorted)], p) THEN Append(sorted, p)
    ELSE Append(InsertPath(SubSeq(sorted, 1, Len(sorted) - 1), p), sorted[Len(sorted)])

RECURSIVE SortPaths(_)
\* the paths of S in traversal order
SortPaths(S) ==
    IF S = {} THEN <<>>
    ELSE LET p == CHOOSE x \in S : TRUE
         IN InsertPath(SortPaths(S \ {p}), p)

\* f[path].visit(names.append): the names in traversal order
Visit(st, lin) == SortPaths(Nodes(st, lin))

\* isinstance(f[path][name], h5py.Dataset)
IsDataset(st, lin, p) == \E l \in st.leaves : l.line = lin /\ LeafPath(l) = p

\* f[path][name] for a dataset
DatasetAt(st, lin, p) == CHOOSE l \in st.leaves : l.line = lin /\ LeafPath(l) = p

\* "picked" in ds.name, ds.name being the full path of the dataset
HasPicked(lin, p) == \E i \in 1..Len(p) : p[i].stem = "picked"

(***************************************************************************)
(* HDFpath2fid.                                                            *)
(***************************************************************************)
RECURSIVE Rjust4(_)
\* s.rjust(4, '0')
Rjust4(s) == IF Len(s) >= 4 THEN s ELSE Rjust4(<<"0">> \o s)

\* HDFpath2fid(path): path[1:] drops one character of the first stem and
\* leaves every suffix as it is; the four-name unpacking and int() raise
\* ValueError on a path of another depth or with a suffix that is no integer
HDFpath2fid(fullpath) ==
    IF Len(fullpath) # 4 \/ \E i \in 1..Len(fullpath) : ~IsIntText(fullpath[i].suffix)
    THEN [raised |-> "ValueError", fid |-> <<>>]
    ELSE [raised |-> None,
          fid |-> Rjust4(Str(Int_(fullpath[1].suffix))) \o Rjust4(Str(Int_(fullpath[2].suffix)))
                  \o Rjust4(Str(Int_(fullpath[3].suffix))) \o Rjust4(Str(Int_(fullpath[4].suffix)))]

(***************************************************************************)
(* The metadata collaborator (irlib.recordlist.RecordList).                *)
(***************************************************************************)
\* RecordList(datafile): parallel lists, one entry per record
RecordList == [fids |-> <<>>, attrs |-> <<>>]

\* AddDataset(dataset, fid): the fid is recorded, then the metadata block is
\* parsed; a malformed block raises ParseError and leaves the lists uneven
AddDataset(md, leaf, fid) ==
    IF leaf.xml
    THEN [raised |-> None,
          md |-> [fids |-> Append(md.fids, fid), attrs |-> Append(md.attrs, leaf.loc)]]
    ELSE [raised |-> "ParseError", md |-> [md EXCEPT !.fids = Append(md.fids, fid)]]

Min(a, b) == IF a <= b THEN a ELSE b
Max(a, b) == IF a >= b THEN a ELSE b

\* CropRecords(): cut every list to the shortest, dropping a dangling entry
CropRecords(md) ==
    LET n == Min(Len(md.fids), Len(md.attrs))
    IN [fids |-> SubSeq(md.fids, 1, n), attrs |-> SubSeq(md.attrs, 1, n)]

(***************************************************************************)
(* Python list slicing.                                                    *)
(***************************************************************************)
\* the position a slice index i denotes in a list of n elements
SliceIndex(i, n) == IF i < 0 THEN Max(n + i, 0) ELSE Min(i, n)

\* s[:hi]
SliceTo(s, hi) == SubSeq(s, 1, SliceIndex(hi, Len(s)))

\* s[lo:]
SliceFrom(s, lo) == SubSeq(s, SliceIndex(lo, Len(s)) + 1, Len(s))

\* a bound is <<>> (None) or <<n>>
NoneB == <<>>

(***************************************************************************)
(* ExtractLine.                                                            *)
(***************************************************************************)
\* allowed_datacaptures: "datacapture_{0}".format(dc) for the one integer or
\* for each integer of the iterable
AllowedDatacaptures(datacapture) ==
    {Name("datacapture", datacapture.vals[i]) : i \in 1..Len(datacapture.vals)}

\* the nested filter: datasets, not picked, under an allowed channel group
KeepName(st, lin, datacapture, name) ==
    /\ IsDataset(st, lin, name)
    /\ ~HasPicked(lin, <<LineName(lin)>> \o name)
    /\ name[Len(name) - 1] \in AllowedDatacaptures(datacapture)

FilterDatasets(st, lin, datacapture) ==
    LET names == Visit(st, lin)
        Test(name) == KeepName(st, lin, datacapture, name)
    IN SelectSeq(names, Test)

\* the sort key: int(s.split('/')[0].split('_')[1])
LocationKey(s) == Int_(s[1].suffix)

RECURSIVE InsertByKey(_, _)
\* x put behind every element whose key is not greater (the sort is stable)
InsertByKey(sorted, x) ==
    IF sorted = <<>> THEN <<x>>
    ELSE IF LocationKey(sorted[Len(sorted)]) <= LocationKey(x) THEN Append(sorted, x)
    ELSE Append(InsertByKey(SubSeq(sorted, 1, Len(sorted) - 1), x), sorted[Len(sorted)])

\* the sort left out: the datasets stay in traversal order
SortDatasetsNone(ds) == ds

RECURSIVE SortDatasets(_)
\* datasets.sort(key=...)
SortDatasets(ds) ==
    IF ds = <<>> THEN <<>>
    ELSE InsertByKey(SortDatasets(SubSeq(ds, 1, Len(ds) - 1)), ds[Len(ds)])

\* the two bounds steps: datasets[:bounds[1]], then datasets[bounds[0]:]
ApplyBounds(ds, bounds) ==
    LET upper == IF bounds[2] # NoneB THEN SliceTo(ds, bounds[2][1]) ELSE ds
    IN IF bounds[1] # NoneB THEN SliceFrom(upper, bounds[1][1]) ELSE upper

\* the loop without its handlers: a fault of one record ends the loop
MetadataStepNoCatch(st, lin, trace, acc) ==
    LET fullpath == <<LineName(lin)>> \o trace
        fid == HDFpath2fid(fullpath)
        add == AddDataset(acc.md, DatasetAt(st, lin, trace), fid.fid)
        seen == Append(acc.attempted, trace)
    IN IF fid.raised = "ValueError"
       THEN [md |-> acc.md, log |-> acc.log, attempted |-> seen, raised |-> "ValueError"]
       ELSE [md |-> add.md, log |-> acc.log, attempted |-> seen, raised |-> add.raised]

\* one turn of the metadata loop for dataset `trace`: lines 214-221
MetadataStep(st, lin, trace, acc) ==
    LET fullpath == <<LineName(lin)>> \o trace
        fid == HDFpath2fid(fullpath)
        add == AddDataset(acc.md, DatasetAt(st, lin, trace), fid.fid)
        seen == Append(acc.attempted, trace)
    IN IF fid.raised = "ValueError"
       THEN [md |-> acc.md, log |-> Append(acc.log, "malformed-path"),
             attempted |-> seen, raised |-> None]
       ELSE IF add.raised = "ParseError"
       THEN [md |-> CropRecords(add.md), log |-> Append(acc.log, "parse-error"),
             attempted |-> seen, raised |-> None]
       ELSE [md |-> add.md, log |-> acc.log, attempted |-> seen, raised |-> None]

RECURSIVE GrabMetadata(_, _, _, _)
\* for trace in datasets: ...
GrabMetadata(st, lin, traces, acc) ==
    IF traces = <<>> \/ acc.raised # None THEN acc
    ELSE GrabMetadata(st, lin, Tail(traces), MetadataStep(st, lin, Head(traces), acc))

\* arrays are [rows, cols, at], at being indexed from 0
Zeros(r, c) == [rows |-> r, cols |-> c,
                at |-> [x \in (0..(r - 1)) \X (0..(c - 1)) |-> 0]]

\* arr[j, :n] = data
AssignRow(arr, j, n, data) ==
    [arr EXCEPT !.at = [x \in DOMAIN arr.at |->
                          IF x[1] = j /\ x[2] < n THEN data[x[2] + 1] ELSE arr.at[x]]]

RECURSIVE FillRows(_, _, _, _, _)
\* for j, dataset in enumerate(datasets): arr[j,:nsamples[j]] = line_ptr[dataset][:]
FillRows(st, lin, ds, j, arr) ==
    IF j >= Len(ds) THEN arr
    ELSE LET data == DatasetAt(st, lin, ds[j + 1]).data
         IN FillRows(st, lin, ds, j + 1, AssignRow(arr, j, Len(data), data))

\* the transposition left out
TransposeNone(arr) == arr

\* arr.T
Transpose(arr) == [rows |-> arr.cols, cols |-> arr.rows,
                   at |-> [x \in (0..(arr.cols - 1)) \X (0..(arr.rows - 1)) |->
                             arr.at[<<x[2], x[1]>>]]]

RECURSIVE MaxOf(_)
\* max(nsamples) of a non-empty list
MaxOf(s) == IF Len(s) = 1 THEN s[1] ELSE Max(s[1], MaxOf(Tail(s)))

NoArray == Zeros(0, 0)

(***************************************************************************)
(* The retention map (irlib.autovivification.AutoVivification): a mapping  *)
(* of line names to mappings of names to booleans.                         *)
(***************************************************************************)
EmptyMap == [x \in {} |-> TRUE]

\* self.retain[line]: reading an absent key inserts an empty mapping
VivifyLine(rt, line) ==
    IF line \in DOMAIN rt THEN rt ELSE [x \in DOMAIN rt \cup {line} |->
                                          IF x = line THEN EmptyMap ELSE rt[x]]

\* self.retain[line][location] = value
SetCell(rt, line, location, value) ==
    LET r == VivifyLine(rt, line)
    IN [r EXCEPT ![line] = [x \in DOMAIN r[line] \cup {location} |->
                              IF x = location THEN value ELSE r[line][x]]]

\* self.retain[line][location] read: an absent cell is inserted as kept
GetCell(rt, line, location) ==
    IF line \in DOMAIN rt /\ location \in DOMAIN rt[line] THEN rt[line][location]
    ELSE TRUE

VivifyCell(rt, line, location) == SetCell(rt, line, location, GetCell(rt, line, location))

(***************************************************************************)
(* Survey.__init__.                                                        *)
(***************************************************************************)
\* for line in f: if isinstance(f[line], h5py.Group):
\*     for location in list(f): self.retain[line][location] = True
\* (every name at the top of these stores is a line group)
RetainAtOpen(st) ==
    LET top == {LineName(l) : l \in st.lines}
    IN [line \in top |-> [location \in top |-> TRUE]]

Ret0 == [op |-> "none"]

SurveyInit ==
    /\ pc = "new"
    /\ f' = None
    /\ IF ~store.isfile
       THEN /\ pc' = "failed"
            /\ ret' = [op |-> "Survey", outcome |-> "raise", exc |-> "IOError"]
            /\ UNCHANGED retain
       ELSE /\ pc' = "open"
            /\ retain' = RetainAtOpen(store)
            /\ ret' = Ret0
    /\ UNCHANGED <<store, marks>>

(***************************************************************************)
(* ExtractLine, continued.                                                 *)
(***************************************************************************)
\* what a call of ExtractLine leaves behind: its arguments, how it ended,
\* the point it reached, its diagnostics and its local values
ExtractRet(lin, bounds, datacapture, fromcache, cachefile) ==
    [op |-> "ExtractLine", line |-> lin, bounds |-> bounds, datacapture |-> datacapture,
     fromcache |-> fromcache, cachefile |-> cachefile,
     outcome |-> "raise", exc |-> None, stage |-> "cache", log |-> <<>>,
     datasets |-> <<>>, attempted |-> <<>>, arr |-> NoArray,
     metadata |-> RecordList, view |-> EmptyMap]

\* the handler left out: the ValueError of max([]) reaches the caller
OnIndexFaultRaise(base) == [base EXCEPT !.exc = "ValueError"]

\* except ValueError: write "Failed to index ..." and return (None)
OnIndexFault(base) ==
    [base EXCEPT !.outcome = "None", !.log = Append(base.log, "failed-to-index")]

\* lines 223-240: the array of the kept datasets and the gather built on it
Reconcile(st, rt, lin, datasets, base) ==
    LET nsamples == [j \in 1..Len(datasets) |-> Len(DatasetAt(st, lin, datasets[j]).data)]
    IN IF Len(nsamples) = 0
       THEN OnIndexFault(base)
       ELSE LET maxsamples == MaxOf(nsamples)
                arr == FillRows(st, lin, datasets, 0, Zeros(Len(datasets), maxsamples))
            IN [base EXCEPT !.outcome = "gather", !.arr = Transpose(arr),
                            !.view = VivifyLine(rt, LineName(lin))[LineName(lin)]]

\* lines 176-240: extraction from the store
FromHDF(st, rt, lin, bounds, datacapture, base) ==
    IF lin \notin st.lines
    THEN [base EXCEPT !.exc = "KeyError", !.stage = "open"]
    ELSE
    LET filtered == FilterDatasets(st, lin, datacapture)
        log1 == IF Len(filtered) = 0 THEN Append(base.log, "no-datasets") ELSE base.log
        sorted == SortDatasets(filtered)
        log2 == IF Len(bounds) # 2 THEN Append(log1, "bad-bounds") ELSE log1
    IN IF Len(bounds) < 2
       THEN [base EXCEPT !.exc = "IndexError", !.stage = "bounds", !.log = log2,
                         !.datasets = sorted]
       ELSE
       LET datasets == ApplyBounds(sorted, bounds)
           meta == GrabMetadata(st, lin, datasets,
                     [md |-> RecordList, log |-> log2, attempted |-> <<>>, raised |-> None])
           after == [base EXCEPT !.stage = "metadata", !.log = meta.log,
                                 !.datasets = datasets, !.attempted = meta.attempted,
                                 !.metadata = meta.md]
       IN IF meta.raised # None
          THEN [after EXCEPT !.exc = meta.raised]
          ELSE Reconcile(st, rt, lin, datasets, [after EXCEPT !.stage = "array"])

\* ExtractLine(line, bounds, datacapture, fromcache): cachefile is what the
\* cache path holds when the call is made ("absent", "clean": it unpickles,
\* "corrupt": unpickling raises)
ExtractLine(st, rt, lin, bounds, datacapture, fromcache, cachefile) ==
    LET base == ExtractRet(lin, bounds, datacapture, fromcache, cachefile)
    IN IF fromcache /\ cachefile = "clean"
       THEN [base EXCEPT !.outcome = "cached"]
       ELSE IF fromcache /\ cachefile = "corrupt"
       THEN [base EXCEPT !.exc = "UnpicklingError"]
       ELSE FromHDF(st, rt, lin, bounds, datacapture,
                    IF fromcache THEN [base EXCEPT !.log = <<"cache-absent">>] ELSE base)

\* a channel selector: one integer, or an iterable of integers
Single(c) == [iter |-> FALSE, vals |-> <<c>>]

RECURSIVE Ascending(_)
Ascending(S) == IF S = {} THEN <<>>
                ELSE LET m == CHOOSE x \in S : \A y \in S : x <= y
                     IN <<m>> \o Ascending(S \ {m})

Many(S) == [iter |-> TRUE, vals |-> Ascending(S)]

Selectors == {Single(c) : c \in DcIds} \cup {Many(S) : S \in SUBSET DcIds}

BoundVals == {NoneB} \cup {<<n>> : n \in (-MaxBound)..MaxBound}

Unbounded == <<NoneB, NoneB>>

\* bounds sequences that do not have two elements
MalformedBounds == {<<>>} \cup {<<b>> : b \in {NoneB, <<1>>}}
                   \cup {<<b, c, NoneB>> : b \in {NoneB, <<1>>}, c \in {NoneB, <<1>>}}

\* bounds that cut the front, the back, or everything
SomeBounds == {<<NoneB, <<0>>>>, <<<<1>>, NoneB>>, <<NoneB, <<-1>>>>}

\* the calls made: every selector, unbounded; some bounds, on all channels;
\* the cache consulted; a line that is not in the store
ExtractCalls ==
    {<<ExtLine, Unbounded, dc, FALSE, "absent">> : dc \in Selectors}
    \cup {<<ExtLine, b, Many(DcIds), FALSE, "absent">> : b \in SomeBounds}
    \cup {<<ExtLine, b, dc, TRUE, c>>
            : b \in {Unbounded}, dc \in {Single(0), Many(DcIds)},
              c \in {"absent", "clean", "corrupt"}}
    \cup {<<l, Unbounded, Single(0), FALSE, "absent">> : l \in LineIds \ {ExtLine}}

\* the calls made to exercise the bounds: every bounds sequence, on all
\* channels and on channel 0
BoundsCalls ==
    {<<ExtLine, b, dc, FALSE, "absent">>
       : b \in (BoundVals \X BoundVals) \cup MalformedBounds,
         dc \in {Single(0), Many(DcIds)}}

Call(calls) ==
    /\ pc = "open"
    /\ \E c \in calls :
         /\ ret' = ExtractLine(store, retain, c[1], c[2], c[3], c[4], c[5])
         /\ retain' = IF ret'.outcome = "gather" THEN VivifyLine(retain, LineName(c[1]))
                      ELSE retain
    /\ pc' = "called"
    /\ UNCHANGED <<store, f, marks>>

ExtractLineCall == Call(ExtractCalls)

ExtractLineBoundsCall == Call(BoundsCalls)

\* the caller takes the result of the call; the survey is ready for the next
Return ==
    /\ pc = "called"
    /\ pc' = "open"
    /\ ret' = Ret0
    /\ UNCHANGED <<store, f, retain, marks>>

Init ==
    /\ \/ store = NoStore
       \/ \E cs \in CellSets : \E k \in [cs -> Kinds] : store = ExtractStore(cs, k)
    /\ f = None
    /\ retain = EmptyMap
    /\ marks = 0
    /\ pc = "new"
    /\ ret = Ret0

Next == SurveyInit \/ ExtractLineCall \/ Return

Spec == Init /\ [][Next]_vars

NextBounds == SurveyInit \/ ExtractLineBoundsCall \/ Return

SpecBounds == Init /\ [][NextBounds]_vars

(***************************************************************************)
(* GetLines and GetChannelsInLine.                                         *)
(***************************************************************************)
\* the key of lines.sort: int(s.split('_')[1])
LineKey(name) == Int_(name.suffix)

RECURSIVE InsertLine(_, _)
InsertLine(sorted, x) ==
    IF sorted = <<>> THEN <<x>>
    ELSE IF LineKey(sorted[Len(sorted)]) <= LineKey(x) THEN Append(sorted, x)
    ELSE Append(InsertLine(SubSeq(sorted, 1, Len(sorted) - 1), x), sorted[Len(sorted)])

RECURSIVE SortLines(_)
SortLines(names) ==
    IF names = <<>> THEN <<>>
    ELSE InsertLine(SortLines(SubSeq(names, 1, Len(names) - 1)), names[Len(names)])

\* name[:4] == 'line'
IsLineName(name) == name.stem = "line"

\* GetLines(): the names at the top that begin with "line", by line number
GetLines(st) == SortLines(SelectSeq(TopNames(st), IsLineName))

\* GetChannelsInLine(lineno): lineno indexes the list GetLines() returns (a
\* negative index counts from its end); the handler of IndexError evaluates
\* len(self.GetLines), the length of a method, which raises TypeError
GetChannelsInLine(st, lineno) ==
    LET lines == GetLines(st)
        n == Len(lines)
        base == [op |-> "GetChannelsInLine", lineno |-> lineno, outcome |-> "raise",
                 exc |-> None, value |-> 0]
    IN IF lineno >= n \/ lineno < -n
       THEN [base EXCEPT !.exc = "TypeError"]
       ELSE
       LET line == lines[IF lineno >= 0 THEN lineno + 1 ELSE n + lineno + 1]
           lin == Int_(line.suffix)
           locs == LocNames(st, lin)
           n_datacaptures == [i \in 1..Len(locs) |->
                                Cardinality(ChannelNames(st, lin, Int_(locs[i].suffix)))]
       IN IF Len(locs) = 0
          THEN [base EXCEPT !.exc = "EmptyLineError"]
          ELSE [base EXCEPT !.outcome = "return", !.value = MaxOf(n_datacaptures)]

GetChannelsInLineCall ==
    /\ pc = "open"
    /\ \E lineno \in (-1)..(MaxLine + 1) : ret' = GetChannelsInLine(store, lineno)
    /\ pc' = "called"
    /\ UNCHANGED <<store, f, retain, marks>>

(***************************************************************************)
(* The retention map marked by callers, and WriteHDF5.                     *)
(***************************************************************************)
\* a caller (quality control) marks a location of a line kept or discarded
SetRetain ==
    /\ pc = "open"
    /\ marks < MaxMarks
    /\ \E lin \in store.lines, loc \in LocIds, value \in BOOLEAN :
         retain' = SetCell(retain, LineName(lin), Name("location", loc), value)
    /\ marks' = marks + 1
    /\ UNCHANGED <<store, f, pc, ret>>

RECURSIVE VivifyCells(_, _)
\* the cells WriteHDF5 reads, inserted where absent
VivifyCells(rt, cells) ==
    IF cells = {} THEN rt
    ELSE LET c == CHOOSE x \in cells : TRUE
         IN VivifyCells(VivifyCell(rt, LineName(c[1]), Name("location", c[2])), cells \ {c})

\* lines 274-287 over an open source handle: every line group is created and
\* the locations whose cell is kept are copied
CopyRetained(src, rt) ==
    LET kept == {x \in src.locs : GetCell(rt, LineName(x[1]), Name("location", x[2]))}
    IN MkStore(src.lines, kept, {l \in src.leaves : <<l.line, l.loc>> \in kept})

\* WriteHDF5(fnm, overwrite): exists is os.path.exists(fnm) when the call is
\* made.  The destination is created empty by h5py.File(fnm, 'w'); the loop
\* then iterates self.f, which __init__ set to None and nothing else sets,
\* and iterating None raises TypeError
WriteHDF5(st, handle, rt, exists, overwrite) ==
    LET base == [op |-> "WriteHDF5", exists |-> exists, overwrite |-> overwrite,
                 outcome |-> "return", exc |-> None, written |-> FALSE,
                 dest |-> EmptyStore, retain |-> rt, before |-> rt]
    IN IF exists /\ ~overwrite
       THEN base
       ELSE IF handle = None
       THEN [base EXCEPT !.outcome = "raise", !.exc = "TypeError", !.written = TRUE]
       ELSE [base EXCEPT !.written = TRUE, !.dest = CopyRetained(st, rt),
                         !.retain = VivifyCells(rt, st.locs)]

WriteHDF5Call ==
    /\ pc = "open"
    /\ \E exists \in BOOLEAN, overwrite \in BOOLEAN :
         ret' = WriteHDF5(store, f, retain, exists, overwrite)
    /\ retain' = ret'.retain
    /\ pc' = "called"
    /\ UNCHANGED <<store, f, marks>>

InitLayout ==
    /\ \/ store = NoStore
       \/ \E ls \in SUBSET LineIds : \E sh \in [ls -> LineShapes] : store = LayoutStore(ls, sh)
    /\ f = None
    /\ retain = EmptyMap
    /\ marks = 0
    /\ pc = "new"
    /\ ret = Ret0

NextLayout == SurveyInit \/ SetRetain \/ GetChannelsInLineCall \/ WriteHDF5Call \/ Return

SpecLayout == InitLayout /\ [][NextLayout]_vars

(***************************************************************************)
(* Properties of ExtractLine (specification Spec).                         *)
(***************************************************************************)
Extracted == pc = "called" /\ ret.op = "ExtractLine"

\* the call got past the bounds: ret.datasets is the kept-record list
KeptListFinal == Extracted /\ ret.stage \in {"metadata", "array"}

\* the integers a selector selects
SelectedChannels(datacapture) == {datacapture.vals[i] : i \in 1..Len(datacapture.vals)}

\* the datasets of a line that lie under a selected channel group and are
\* not of the picked kind, read off the store
ExpectedRecords(lin, datacapture) ==
    {l \in store.leaves : /\ l.line = lin
                          /\ l.name.stem # "picked"
                          /\ l.dc \in SelectedChannels(datacapture)}

KeptLeaf(j) == DatasetAt(store, ret.line, ret.datasets[j])

C1_Case ==
    /\ Extracted
    /\ ~ret.fromcache
    /\ ret.bounds = Unbounded
    /\ ret.line \in store.lines

\* C1: with unbounded bounds and no cache, the records ExtractLine assembles
\* are exactly the datasets of the line that are not picked and lie under a
\* selected channel group, each once, in ascending order of location number.
C1_FilterAndOrder ==
    C1_Case =>
      /\ {ret.datasets[j] : j \in 1..Len(ret.datasets)}
           = {LeafPath(l) : l \in ExpectedRecords(ret.line, ret.datacapture)}
      /\ Len(ret.datasets) = Cardinality(ExpectedRecords(ret.line, ret.datacapture))
      /\ \A i, j \in 1..Len(ret.datasets) : i < j => KeptLeaf(i).loc <= KeptLeaf(j).loc

\* selector [0,2] on a line with channels {0,1,2}: two records of different
\* channels, the traversal meeting the one of the greater location first
C1_Witness ==
    /\ C1_Case
    /\ ret.datacapture = Many({0, 2})
    /\ {l.dc : l \in store.leaves} = {0, 1, 2}
    /\ Len(ret.datasets) = 2
    /\ KeptLeaf(1).loc = SmallLoc /\ KeptLeaf(2).loc = BigLoc
    /\ KeptLeaf(1).dc # KeptLeaf(2).dc

SampleCount(j) == Len(KeptLeaf(j).data)

LongestCount ==
    CHOOSE m \in {SampleCount(j) : j \in 1..Len(ret.datasets)} :
      \A j \in 1..Len(ret.datasets) : SampleCount(j) <= m

C2_Case == Extracted /\ ret.outcome = "gather"

\* C2: the returned array has max(n_j) rows (samples) and k columns
\* (records); entry [i][j] is sample i of record j for i < n_j and 0 beyond.
C2_ShapeAndPadding ==
    C2_Case =>
      /\ ret.arr.rows = LongestCount
      /\ ret.arr.cols = Len(ret.datasets)
      /\ \A i \in 0..(ret.arr.rows - 1), j \in 0..(ret.arr.cols - 1) :
           ret.arr.at[<<i, j>>] = IF i < SampleCount(j + 1)
                                  THEN KeptLeaf(j + 1).data[i + 1] ELSE 0

\* three records of unequal length: a padded entry exists
C2_Witness ==
    /\ C2_Case
    /\ Len(ret.datasets) = 3
    /\ ret.arr.rows = MaxSamples
    /\ \E j \in 1..3 : SampleCount(j) < MaxSamples
    /\ \E j \in 1..3 : SampleCount(j) = MaxSamples

\* the candidates before the bounds are applied
SortedCandidates == SortDatasets(FilterDatasets(store, ret.line, ret.datacapture))

\* s[lo:hi] with None for an open end
SliceOrNone(s, lo, hi) ==
    SubSeq(s, (IF lo = NoneB THEN 0 ELSE SliceIndex(lo[1], Len(s))) + 1,
              IF hi = NoneB THEN Len(s) ELSE SliceIndex(hi[1], Len(s)))

\* C3: for every bounds pair (lo, hi), the two-pass application yields the
\* same record list as the single slice [lo:hi] of the sorted candidates.
C3_TwoPassIsSlice ==
    (KeptListFinal /\ Len(ret.bounds) = 2) =>
      ret.datasets = SliceOrNone(SortedCandidates, ret.bounds[1], ret.bounds[2])

\* C7 as stated: an empty kept-record list makes the call fail with an
\* I/O-class error surfaced to the caller, after a diagnostic.
C7_EmptyRaises ==
    (Extracted /\ ret.stage = "array" /\ ret.datasets = <<>>) =>
      /\ ret.outcome = "raise"
      /\ ret.exc \in {"IOError", "OSError", "ValueError"}
      /\ Len(ret.log) > 0

CompleteArray(arr, k) ==
    /\ arr.cols = k
    /\ DOMAIN arr.at = (0..(arr.rows - 1)) \X (0..(k - 1))

\* C7 (amended): with an empty kept-record list ExtractLine writes the
\* "failed to index" diagnostic and returns None, raising nothing and
\* returning no array; an array is returned only for a non-empty list, with
\* one complete column for every kept record.
C7_EmptyReturnsNone ==
    Extracted =>
      /\ (ret.stage = "array" /\ ret.datasets = <<>>) =>
           /\ ret.outcome = "None"
           /\ ret.exc = None
           /\ \E i \in 1..Len(ret.log) : ret.log[i] = "failed-to-index"
      /\ ret.outcome = "gather" =>
           /\ ret.datasets # <<>>
           /\ CompleteArray(ret.arr, Len(ret.datasets))
      /\ ret.outcome # "gather" => ret.arr = NoArray

\* the line holds datasets, none under the selected channel
C7_Witness ==
    /\ Extracted
    /\ ret.stage = "array"
    /\ ret.datasets = <<>>
    /\ ret.outcome = "None"
    /\ \E l \in store.leaves : l.line = ret.line
    /\ ret.log = <<"no-datasets", "failed-to-index">>

SameResult(a, b) ==
    /\ a.outcome = b.outcome
    /\ a.exc = b.exc
    /\ a.datasets = b.datasets
    /\ a.arr = b.arr
    /\ a.metadata = b.metadata

\* C8: a bounds sequence that does not have two elements gives a warning,
\* no failure, and the result of the call with bounds (None, None).
C8_MalformedBoundsIgnored ==
    (Extracted /\ Len(ret.bounds) # 2 /\ ret.line \in store.lines /\ ~ret.fromcache) =>
      /\ \E i \in 1..Len(ret.log) : ret.log[i] = "bad-bounds"
      /\ ret.outcome # "raise"
      /\ SameResult(ret, ExtractLine(store, retain, ret.line, Unbounded,
                                     ret.datacapture, FALSE, "absent"))

\* C9: the cached artifact is returned only when the file unpickles; an
\* absent file and a corrupt file each give their own diagnostic and the
\* result of the same call without the cache.
C9_CacheFallThrough ==
    (Extracted /\ ret.fromcache) =>
      /\ ret.outcome = "cached" <=> ret.cachefile = "clean"
      /\ ret.cachefile = "absent" =>
           /\ ret.log # <<>> /\ ret.log[1] = "cache-absent"
      /\ ret.cachefile = "corrupt" =>
           /\ ret.log # <<>> /\ ret.log[1] = "cache-corrupt"
      /\ ret.cachefile # "clean" =>
           SameResult(ret, ExtractLine(store, retain, ret.line, ret.bounds,
                                       ret.datacapture, FALSE, "absent"))

\* whether the metadata association of a kept record faults: its metadata
\* block is malformed, or a suffix of its path is no integer
Faults(l) == ~l.xml \/ ~IsIntText(l.name.suffix)

FaultCount == Cardinality({j \in 1..Len(ret.datasets) : Faults(KeptLeaf(j))})

Diagnostics == {i \in 1..Len(ret.log) : ret.log[i] \in {"parse-error", "malformed-path"}}

C10_Case == KeptListFinal /\ ret.datasets # <<>>

\* C10: whichever kept records fault in the metadata association, the call
\* does not abort: the association is attempted for every kept record in
\* order, the array holds the samples of all N records in their order, one
\* diagnostic is written per fault, and the metadata collection holds one
\* entry per record that did not fault (fewer than N when one faulted).
C10_FaultsDoNotAbort ==
    C10_Case =>
      /\ ret.outcome = "gather"
      /\ ret.attempted = ret.datasets
      /\ ret.arr.cols = Len(ret.datasets)
      /\ \A j \in 1..Len(ret.datasets) : \A i \in 1..SampleCount(j) :
           ret.arr.at[<<i - 1, j - 1>>] = KeptLeaf(j).data[i]
      /\ Cardinality(Diagnostics) = FaultCount
      /\ Len(ret.metadata.fids) = Len(ret.datasets) - FaultCount
      /\ Len(ret.metadata.attrs) = Len(ret.metadata.fids)
      /\ \A i \in 1..Len(ret.metadata.fids) : Len(ret.metadata.fids[i]) = 16

\* three kept records: the first with a malformed metadata block, the second
\* with a malformed path, the third sound
C10_Witness ==
    /\ C10_Case
    /\ Len(ret.datasets) = 3
    /\ ~KeptLeaf(1).xml
    /\ ~IsIntText(KeptLeaf(2).name.suffix)
    /\ ~Faults(KeptLeaf(3))
    /\ Len(ret.metadata.fids) = 1
    /\ ret.outcome = "gather"

(***************************************************************************)
(* Properties of the store layout operations (specification SpecLayout).   *)
(***************************************************************************)
\* the copy WriteHDF5 is to produce: every line group, and the locations
\* whose cell read true when the call was made
ExpectedCopy(rt) ==
    LET kept == {x \in store.locs : GetCell(rt, LineName(x[1]), Name("location", x[2]))}
    IN MkStore(store.lines, kept, {l \in store.leaves : <<l.line, l.loc>> \in kept})

\* C4: WriteHDF5 called when the destination does not exist or overwrite is
\* true succeeds, and the store written holds every line group and exactly
\* the locations whose retention cell was true at call time.
C4_WriteFiltered ==
    (pc = "called" /\ ret.op = "WriteHDF5" /\ (~ret.exists \/ ret.overwrite)) =>
      /\ ret.outcome = "return"
      /\ ret.written
      /\ ret.dest = ExpectedCopy(ret.before)

\* C5: right after a Survey is opened its retention map holds one entry,
\* true, for every (line, location) of the store and no other entry.
C5_RetainAtOpen ==
    (pc = "open" /\ marks = 0) =>
      retain = [line \in {LineName(l) : l \in store.lines} |->
                  [location \in {Name("location", x[2]) :
                                   x \in {y \in store.locs : LineName(y[1]) = line}} |-> TRUE]]

ChannelGroups(lin, loc) == {l.dc : l \in {x \in store.leaves : x.line = lin /\ x.loc = loc}}

LocationsOf(lin) == {x[2] : x \in {y \in store.locs : y[1] = lin}}

\* C6: for every line number present in the store, GetChannelsInLine returns
\* the greatest number of channel groups under a location of that line, and
\* fails with EmptyLineError when the line has no location.
C6_ChannelCount ==
    (pc = "called" /\ ret.op = "GetChannelsInLine" /\ ret.lineno \in store.lines) =>
      IF LocationsOf(ret.lineno) = {}
      THEN ret.outcome = "raise" /\ ret.exc = "EmptyLineError"
      ELSE /\ ret.outcome = "return"
           /\ \A loc \in LocationsOf(ret.lineno) :
                Cardinality(ChannelGroups(ret.lineno, loc)) <= ret.value
           /\ \E loc \in LocationsOf(ret.lineno) :
                Cardinality(ChannelGroups(ret.lineno, loc)) = ret.value

====
